---- MODULE Spec2Model ----
(***************************************************************************)
(* A model of weather_fetcher.py: one synchronous pipeline                 *)
(*   fetch -> print raw -> banner -> format -> print table -> write file,  *)
(* run repeatedly against one weather_report.md.                           *)
(*                                                                         *)
(* Texts (the report file, the Markdown table) are sequences of lines and  *)
(* a line of a table is the sequence of its cells; the column padding that *)
(* tabulate adds is not represented.  JSON numbers are integers.           *)
(***************************************************************************)
EXTENDS Integers, Sequences, FiniteSets, TLC

VARIABLES
    pc,              \* position in main (or in the function harness)
    runs,            \* number of the current run of the script
    response,        \* what the transport did with this run's GET
    http_requests,   \* GET requests issued in this run
    weather_data,    \* main: weather_data
    weather_code,    \* format_weather_as_markdown: weather_code
    condition,       \* format_weather_as_markdown: condition
    format_calls,    \* calls of format_weather_as_markdown in this run
    markdown_table,  \* main: markdown_table
    console,         \* lines printed by this run
    file,            \* weather_report.md
    file_at_start,   \* weather_report.md when this run started
    err,             \* the exception raised inside main's try block
    failed_stage,    \* the stage of main that raised it
    exit_code,       \* -1 while the process runs
    prev             \* outcome of the previous run

vars == <<pc, runs, response, http_requests, weather_data, weather_code,
          condition, format_calls, markdown_table, console, file,
          file_at_start, err, failed_stage, exit_code, prev>>

---------------------------------------------------------------------------
\* Bounds of the model.

\* Runs of the script in one behaviour.
MaxRuns == 2

\* Integer codes tried on each side of the code table's range.
CodeMargin == 2

---------------------------------------------------------------------------
\* JSON values.  k is the kind; "absent" marks a key the object does not have.

JAbsent == [k |-> "absent", n |-> 0, s |-> ""]
JNull == [k |-> "null", n |-> 0, s |-> ""]
JList == [k |-> "list", n |-> 0, s |-> ""]
JInt(i) == [k |-> "int", n |-> i, s |-> ""]
JStr(t) == [k |-> "str", n |-> 0, s |-> t]

\* A current_weather object with these three members (each possibly absent).
CurrentWeather(t, w, c) ==
    [k |-> "obj", temperature |-> t, windspeed |-> w, weathercode |-> c]

\* A top-level response object with this current_weather member.
WeatherResponse(cw) == [k |-> "obj", current_weather |-> cw]

\* The default of weather_data.get('current_weather', {}): the empty dict.
EmptyDict == CurrentWeather(JAbsent, JAbsent, JAbsent)

\* Exceptions and results of the modelled functions.
NoExc == [type |-> "none", msg |-> ""]
Exc(type, msg) == [type |-> type, msg |-> msg]
Returned(v) == [exc |-> NoExc, val |-> v]
Raised(type, msg, v) == [exc |-> Exc(type, msg), val |-> v]

\* dict.get(key, default)
DictGet(d, key, default) == IF d[key].k = "absent" THEN default ELSE d[key]

---------------------------------------------------------------------------
\* get_weather_condition

MinTableCode == 0
MaxTableCode == 99

weather_conditions ==
    0 :> "Clear Sky" @@ 1 :> "Mainly Clear" @@ 2 :> "Partly Cloudy" @@
    3 :> "Overcast" @@ 45 :> "Fog" @@ 48 :> "Depositing Rime Fog" @@
    51 :> "Light Drizzle" @@ 53 :> "Moderate Drizzle" @@
    55 :> "Dense Drizzle" @@ 61 :> "Slight Rain" @@ 63 :> "Moderate Rain" @@
    65 :> "Heavy Rain" @@ 71 :> "Slight Snow" @@ 73 :> "Moderate Snow" @@
    75 :> "Heavy Snow" @@ 77 :> "Snow Grains" @@
    80 :> "Slight Rain Showers" @@ 81 :> "Moderate Rain Showers" @@
    82 :> "Violent Rain Showers" @@ 85 :> "Slight Snow Showers" @@
    86 :> "Heavy Snow Showers" @@ 95 :> "Thunderstorm" @@
    96 :> "Thunderstorm with Slight Hail" @@
    99 :> "Thunderstorm with Heavy Hail"

\* With the default of the missing weathercode as the default of the lookup.
get_weather_condition_default_clear(code) ==
    IF code.k = "list"
    THEN Raised("TypeError", "unhashable type: 'list'", "")
    ELSE Returned(IF code.k = "int" /\ code.n \in DOMAIN weather_conditions
                THEN weather_conditions[code.n]
                ELSE "Clear Sky")

\* A list is unhashable: dict.get raises TypeError for it.  Every other key
\* that is not an int of the table gets the default.
get_weather_condition(code) ==
    IF code.k = "list"
    THEN Raised("TypeError", "unhashable type: 'list'", "")
    ELSE Returned(IF code.k = "int" /\ code.n \in DOMAIN weather_conditions
                THEN weather_conditions[code.n]
                ELSE "Unknown")

---------------------------------------------------------------------------
\* format_weather_as_markdown

\* The text tabulate puts in a cell of a column that holds a string: str(v),
\* and the empty missing-value text for None.
CellText(v) ==
    CASE v.k = "int" -> ToString(v.n)
      [] v.k = "str" -> v.s
      [] v.k = "null" -> ""
      [] OTHER -> "[]"

\* tabulate(table_data, headers=..., tablefmt="pipe"): the header line, the
\* alignment line (both columns hold text: left-aligned), one line per row.
tabulate(table_data, headers) ==
    <<headers, [i \in 1..Len(headers) |-> ":-"]>>
        \o [r \in 1..Len(table_data) |->
               [c \in 1..Len(table_data[r]) |-> CellText(table_data[r][c])]]

\* What a call of format_weather_as_markdown does: the exception it raises
\* (val is then empty) or the table it returns, with its locals.
FormatResult(exc, table, code, cond) ==
    [exc |-> exc, val |-> table, weather_code |-> code, condition |-> cond]

AttributeError == Exc("AttributeError", "object has no attribute 'get'")

\* With current_weather[key] in place of current_weather.get(key, default).
format_weather_as_markdown_no_defaults(wd) ==
    IF wd.k # "obj"
    THEN FormatResult(AttributeError, <<>>, JAbsent, "")
    ELSE
      LET current_weather == DictGet(wd, "current_weather", EmptyDict) IN
      IF current_weather.k # "obj"
      THEN FormatResult(AttributeError, <<>>, JAbsent, "")
      ELSE
        LET temperature == current_weather["temperature"]
            wind_speed == current_weather["windspeed"]
            code == current_weather["weathercode"]
            cond == get_weather_condition(code)
            table_data ==
                << <<JStr("Temperature (Â°C)"), temperature>>,
                   <<JStr("Wind Speed (km/h)"), wind_speed>>,
                   <<JStr("Condition"), JStr(cond.val)>> >>
        IN  IF \E m \in {temperature, wind_speed, code} : m.k = "absent"
            THEN FormatResult(Exc("KeyError", "missing key"), <<>>, code, "")
            ELSE IF cond.exc.type # "none"
            THEN FormatResult(cond.exc, <<>>, code, "")
            ELSE FormatResult(NoExc, tabulate(table_data, <<"Metric", "Value">>),
                              code, cond.val)

format_weather_as_markdown(wd) ==
    IF wd.k # "obj"
    THEN FormatResult(AttributeError, <<>>, JAbsent, "")
    ELSE
      LET current_weather == DictGet(wd, "current_weather", EmptyDict) IN
      IF current_weather.k # "obj"
      THEN FormatResult(AttributeError, <<>>, JAbsent, "")
      ELSE
        LET temperature == DictGet(current_weather, "temperature", JStr("N/A"))
            wind_speed == DictGet(current_weather, "windspeed", JStr("N/A"))
            code == DictGet(current_weather, "weathercode", JInt(0))
            cond == get_weather_condition(code)
            table_data ==
                << <<JStr("Temperature (Â°C)"), temperature>>,
                   <<JStr("Wind Speed (km/h)"), wind_speed>>,
                   <<JStr("Condition"), JStr(cond.val)>> >>
        IN  IF cond.exc.type # "none"
            THEN FormatResult(cond.exc, <<>>, code, "")
            ELSE FormatResult(NoExc, tabulate(table_data, <<"Metric", "Value">>),
                              code, cond.val)

---------------------------------------------------------------------------
\* fetch_weather_data

\* The bodies a response can carry: text json.loads rejects, or the text of
\* one of these documents.
Temperatures == {JAbsent, JInt(-5), JInt(18)}
WindSpeeds == {JAbsent, JInt(12)}
WeatherCodes == {JAbsent, JInt(0), JInt(3), JInt(71), JInt(100), JList}

Documents ==
    {JNull, WeatherResponse(JAbsent), WeatherResponse(JNull)}
        \cup {WeatherResponse(CurrentWeather(t, w, c)) :
                 t \in Temperatures, w \in WindSpeeds, c \in WeatherCodes}

Bodies ==
    {[parses |-> FALSE, data |-> JNull]}
        \cup {[parses |-> TRUE, data |-> d] : d \in Documents}

\* Final status codes of a response: success, a 3xx that is not followed,
\* client error, server error.
Statuses == {200, 304, 404, 500}

\* What the transport can do with the GET.
Transports ==
    {[kind |-> x, status |-> 0, body |-> [parses |-> FALSE, data |-> JNull]] :
        x \in {"timeout", "connection"}}
        \cup {[kind |-> "response", status |-> st, body |-> b] :
                 st \in Statuses, b \in Bodies}

NoTransport ==
    [kind |-> "none", status |-> 0, body |-> [parses |-> FALSE, data |-> JNull]]

\* requests.get(api_url, timeout=10)
requests_get(t) ==
    CASE t.kind = "timeout" -> Raised("Timeout", "Read timed out.", t)
      [] t.kind = "connection" -> Raised("ConnectionError", "Connection refused", t)
      [] OTHER -> Returned(t)

\* response.raise_for_status(): HTTPError for a 4xx or 5xx status.
raise_for_status(r) ==
    IF 400 <= r.status /\ r.status < 600
    THEN Raised("HTTPError", ToString(r.status) \o " Error", r)
    ELSE Returned(r)

\* json.loads(response.text): json.JSONDecodeError is a ValueError.
json_loads(r) ==
    IF r.body.parses
    THEN Returned(r.body.data)
    ELSE Raised("JSONDecodeError", "Expecting value: line 1 column 1 (char 0)", JNull)

\* The classes under requests.exceptions.RequestException.
IsRequestException(exc) ==
    exc.type \in {"RequestException", "Timeout", "ConnectionError", "HTTPError"}

\* Python's Exception: every class raised here derives from it.
IsException(exc) ==
    exc.type \in {"RequestException", "Timeout", "ConnectionError", "HTTPError",
                  "JSONDecodeError", "AttributeError", "TypeError", "KeyError",
                  "OSError"}

\* The body of the try block of fetch_weather_data.
FetchBody(t) ==
    LET got == requests_get(t) IN
    IF got.exc.type # "none" THEN Raised(got.exc.type, got.exc.msg, JNull)
    ELSE LET checked == raise_for_status(got.val) IN
         IF checked.exc.type # "none"
         THEN Raised(checked.exc.type, checked.exc.msg, JNull)
         ELSE json_loads(got.val)

\* Without the call of raise_for_status.
fetch_weather_data_no_status_check(t) ==
    LET got == requests_get(t)
        r == IF got.exc.type # "none"
             THEN Raised(got.exc.type, got.exc.msg, JNull)
             ELSE json_loads(got.val)
    IN  IF IsRequestException(r.exc)
        THEN [exc |-> Exc("RequestException",
                          "Failed to fetch weather data: " \o r.exc.msg),
              val |-> JNull, gets |-> 1]
        ELSE [exc |-> r.exc, val |-> r.val, gets |-> 1]

\* With a second attempt after a failed request.
fetch_weather_data_retry(t) ==
    LET r == FetchBody(t) IN
    IF IsRequestException(r.exc)
    THEN [exc |-> Exc("RequestException",
                      "Failed to fetch weather data: " \o r.exc.msg),
          val |-> JNull, gets |-> 2]
    ELSE [exc |-> r.exc, val |-> r.val, gets |-> 1]

\* val is the parsed document; gets counts the calls of requests.get.
fetch_weather_data(t) ==
    LET r == FetchBody(t) IN
    IF IsRequestException(r.exc)
    THEN [exc |-> Exc("RequestException",
                      "Failed to fetch weather data: " \o r.exc.msg),
          val |-> JNull, gets |-> 1]
    ELSE [exc |-> r.exc, val |-> r.val, gets |-> 1]

---------------------------------------------------------------------------
\* The console and the report file.

\* "=" * 50
BannerWidth == 50

RECURSIVE Repeat(_, _)
Repeat(str, count) == IF count = 0 THEN "" ELSE str \o Repeat(str, count - 1)

\* One print call: what it is, its text, and the table it prints (if any).
\* The text of the pretty-printed JSON is not represented.
Printed(kind, text, table) == [kind |-> kind, text |-> text, table |-> table]

StatusLine == Printed("status", "Fetching weather data...", <<>>)
RawLabel == Printed("raw_label", "\nWeather Data (Raw JSON):", <<>>)
RawJson == Printed("raw_json", "", <<>>)
BannerTop == Printed("rule", "\n" \o Repeat("=", BannerWidth), <<>>)
BannerLabel == Printed("label", "FORMATTED WEATHER DATA (Markdown Table):", <<>>)
BannerBottom == Printed("rule", Repeat("=", BannerWidth), <<>>)
TablePrinted(table) == Printed("table", "", table)
SavedLine == Printed("saved", "\nWeather report saved to 'weather_report.md'", <<>>)

\* The banner without its closing line.
BannerUnclosed == <<BannerTop, BannerLabel>>

\* The three print calls of the banner.
Banner == <<BannerTop, BannerLabel, BannerBottom>>

\* weather_report.md: whether it exists and its lines.
NoFile == [exists |-> FALSE, content |-> <<>>]
FileOf(lines) == [exists |-> TRUE, content |-> lines]

\* What the file can hold before the first run.
InitialFiles == {NoFile, FileOf(<< <<"an older report">> >>)}

\* Mode "a" keeps what the file holds.
open_append(f) == FileOf(f.content)

\* open("weather_report.md", "w", encoding="utf-8"): create or truncate.
open_w(f) == FileOf(<<>>)

\* The heading with one line break.
HeadingNoBlank == << <<"# Weather Report">> >>

\* f.write("# Weather Report\n\n"): the heading line and an empty line.
Heading == << <<"# Weather Report">>, <<>> >>

\* f.write(text)
write(f, lines) == FileOf(f.content \o lines)

\* Without the clause for Exception.
except_clause_requests_only(exc) ==
    IF IsRequestException(exc) THEN "Error: " ELSE "propagate"

\* With one clause, for Exception, printing "Error: ".
except_clause_one_prefix(exc) ==
    IF IsException(exc) THEN "Error: " ELSE "propagate"

\* The except clause of main that takes this exception, and the prefix it
\* prints; "propagate" when none does.
except_clause(exc) ==
    IF IsRequestException(exc) THEN "Error: "
    ELSE IF IsException(exc) THEN "Unexpected error: "
    ELSE "propagate"

ErrorPrinted(exc) ==
    Printed(IF except_clause(exc) = "Error: " THEN "error" ELSE "unexpected",
            except_clause(exc) \o exc.msg, <<>>)

\* The previous run: whether there was one, whether it succeeded and, if it
\* did, the response it reported.
NoPrev == [ran |-> FALSE, ok |-> FALSE, weather_data |-> JNull]

---------------------------------------------------------------------------
\* main, one action per step.

\* The state of a process that has just started.
Start(f, n, p) ==
    /\ pc = "print_fetching"
    /\ runs = n
    /\ response = NoTransport
    /\ http_requests = 0
    /\ weather_data = JNull
    /\ weather_code = JAbsent
    /\ condition = ""
    /\ format_calls = 0
    /\ markdown_table = <<>>
    /\ console = <<>>
    /\ file = f
    /\ file_at_start = f
    /\ err = NoExc
    /\ failed_stage = "none"
    /\ exit_code = -1
    /\ prev = p

Init == \E f \in InitialFiles : Start(f, 1, NoPrev)

\* An exception leaves the try block for the except clauses.
Fail(exc, stage) ==
    /\ err' = exc
    /\ failed_stage' = stage
    /\ pc' = "except"

PrintFetching ==
    /\ pc = "print_fetching"
    /\ console' = Append(console, StatusLine)
    /\ pc' = "fetch"
    /\ UNCHANGED <<runs, response, http_requests, weather_data, weather_code,
                   condition, format_calls, markdown_table, file,
                   file_at_start, err, failed_stage, exit_code, prev>>

Fetch ==
    /\ pc = "fetch"
    /\ \E t \in Transports :
         LET r == fetch_weather_data(t) IN
         /\ response' = t
         /\ http_requests' = http_requests + r.gets
         /\ IF r.exc.type = "none"
            THEN /\ weather_data' = r.val
                 /\ pc' = "print_raw"
                 /\ UNCHANGED <<err, failed_stage>>
            ELSE /\ Fail(r.exc, "fetch")
                 /\ UNCHANGED weather_data
    /\ UNCHANGED <<runs, weather_code, condition, format_calls,
                   markdown_table, console, file, file_at_start, exit_code,
                   prev>>

PrintRaw ==
    /\ pc = "print_raw"
    /\ console' = console \o <<RawLabel, RawJson>>
    /\ pc' = "print_banner"
    /\ UNCHANGED <<runs, response, http_requests, weather_data, weather_code,
                   condition, format_calls, markdown_table, file,
                   file_at_start, err, failed_stage, exit_code, prev>>

PrintBanner ==
    /\ pc = "print_banner"
    /\ console' = console \o Banner
    /\ pc' = "format"
    /\ UNCHANGED <<runs, response, http_requests, weather_data, weather_code,
                   condition, format_calls, markdown_table, file,
                   file_at_start, err, failed_stage, exit_code, prev>>

Format ==
    /\ pc = "format"
    /\ LET r == format_weather_as_markdown(weather_data) IN
       /\ format_calls' = format_calls + 1
       /\ weather_code' = r.weather_code
       /\ condition' = r.condition
       /\ IF r.exc.type = "none"
          THEN /\ markdown_table' = r.val
               /\ pc' = "print_table"
               /\ UNCHANGED <<err, failed_stage>>
          ELSE /\ Fail(r.exc, "format")
               /\ UNCHANGED markdown_table
    /\ UNCHANGED <<runs, response, http_requests, weather_data, console, file,
                   file_at_start, exit_code, prev>>

PrintTable ==
    /\ pc = "print_table"
    /\ console' = Append(console, TablePrinted(markdown_table))
    /\ pc' = "open"
    /\ UNCHANGED <<runs, response, http_requests, weather_data, weather_code,
                   condition, format_calls, markdown_table, file,
                   file_at_start, err, failed_stage, exit_code, prev>>

\* open(..., "w"): the file is created or truncated, or the open fails and
\* leaves it alone.
OpenFile ==
    /\ pc = "open"
    /\ \/ /\ file' = open_w(file)
          /\ pc' = "write_heading"
          /\ UNCHANGED <<err, failed_stage>>
       \/ /\ Fail(Exc("OSError", "[Errno 13] Permission denied"), "open")
          /\ UNCHANGED file
    /\ UNCHANGED <<runs, response, http_requests, weather_data, weather_code,
                   condition, format_calls, markdown_table, console,
                   file_at_start, exit_code, prev>>

\* f.write("# Weather Report\n\n"), or an I/O error: the with block closes
\* the file with what it holds.
WriteHeading ==
    /\ pc = "write_heading"
    /\ \/ /\ file' = write(file, Heading)
          /\ pc' = "write_table"
          /\ UNCHANGED <<err, failed_stage>>
       \/ /\ Fail(Exc("OSError", "[Errno 28] No space left on device"), "write")
          /\ UNCHANGED file
    /\ UNCHANGED <<runs, response, http_requests, weather_data, weather_code,
                   condition, format_calls, markdown_table, console,
                   file_at_start, exit_code, prev>>

\* f.write(markdown_table) and the close at the end of the with block, or an
\* I/O error in either.
WriteTable ==
    /\ pc = "write_table"
    /\ \/ /\ file' = write(file, markdown_table)
          /\ pc' = "print_saved"
          /\ UNCHANGED <<err, failed_stage>>
       \/ /\ Fail(Exc("OSError", "[Errno 28] No space left on device"), "write")
          /\ UNCHANGED file
    /\ UNCHANGED <<runs, response, http_requests, weather_data, weather_code,
                   condition, format_calls, markdown_table, console,
                   file_at_start, exit_code, prev>>

PrintSaved ==
    /\ pc = "print_saved"
    /\ console' = Append(console, SavedLine)
    /\ pc' = "return"
    /\ UNCHANGED <<runs, response, http_requests, weather_data, weather_code,
                   condition, format_calls, markdown_table, file,
                   file_at_start, err, failed_stage, exit_code, prev>>

\* The except clauses of main; an exception none of them takes ends the
\* process with a traceback and exit code 1.
Except ==
    /\ pc = "except"
    /\ IF except_clause(err) = "propagate"
       THEN /\ pc' = "exited"
            /\ exit_code' = 1
            /\ UNCHANGED console
       ELSE /\ console' = Append(console, ErrorPrinted(err))
            /\ pc' = "return"
            /\ UNCHANGED exit_code
    /\ UNCHANGED <<runs, response, http_requests, weather_data, weather_code,
                   condition, format_calls, markdown_table, file,
                   file_at_start, err, failed_stage, prev>>

\* main returns and the process ends.
Return ==
    /\ pc = "return"
    /\ pc' = "exited"
    /\ exit_code' = 0
    /\ UNCHANGED <<runs, response, http_requests, weather_data, weather_code,
                   condition, format_calls, markdown_table, console, file,
                   file_at_start, err, failed_stage, prev>>

\* The script is run again, on the file the last run left.
NewRun ==
    /\ pc = "exited"
    /\ runs < MaxRuns
    /\ pc' = "print_fetching"
    /\ runs' = runs + 1
    /\ response' = NoTransport
    /\ http_requests' = 0
    /\ weather_data' = JNull
    /\ weather_code' = JAbsent
    /\ condition' = ""
    /\ format_calls' = 0
    /\ markdown_table' = <<>>
    /\ console' = <<>>
    /\ file_at_start' = file
    /\ err' = NoExc
    /\ failed_stage' = "none"
    /\ exit_code' = -1
    /\ prev' = [ran |-> TRUE, ok |-> (err = NoExc /\ exit_code = 0),
                weather_data |-> IF err = NoExc /\ exit_code = 0
                                 THEN weather_data ELSE JNull]
    /\ UNCHANGED file

Next ==
    \/ PrintFetching
    \/ Fetch
    \/ PrintRaw
    \/ PrintBanner
    \/ Format
    \/ PrintTable
    \/ OpenFile
    \/ WriteHeading
    \/ WriteTable
    \/ PrintSaved
    \/ Except
    \/ Return
    \/ NewRun

Spec == Init /\ [][Next]_vars

\* The script is one thread of straight-line code: a step that can be taken
\* is taken.
FairSpec == Spec /\ WF_vars(Next)

---------------------------------------------------------------------------
\* get_weather_condition on its own, called with each integer of a range
\* around the table's.

CodesTried == (MinTableCode - CodeMargin)..(MaxTableCode + CodeMargin)

InitCondition ==
    /\ pc = "call"
    /\ weather_code \in {JInt(c) : c \in CodesTried}
    /\ condition = ""
    /\ err = NoExc
    /\ runs = 1
    /\ response = NoTransport
    /\ http_requests = 0
    /\ weather_data = JNull
    /\ format_calls = 0
    /\ markdown_table = <<>>
    /\ console = <<>>
    /\ file = NoFile
    /\ file_at_start = NoFile
    /\ failed_stage = "none"
    /\ exit_code = -1
    /\ prev = NoPrev

CallGetWeatherCondition ==
    /\ pc = "call"
    /\ LET r == get_weather_condition(weather_code) IN
       /\ condition' = r.val
       /\ err' = r.exc
    /\ pc' = "returned"
    /\ UNCHANGED <<runs, response, http_requests, weather_data, weather_code,
                   format_calls, markdown_table, console, file, file_at_start,
                   failed_stage, exit_code, prev>>

SpecCondition == InitCondition /\ [][CallGetWeatherCondition]_vars

---------------------------------------------------------------------------
\* Properties.

\* The label the code table documents for an integer code.
DocumentedLabel(c) ==
    CASE c = 0 -> "Clear Sky"
      [] c = 1 -> "Mainly Clear"
      [] c = 2 -> "Partly Cloudy"
      [] c = 3 -> "Overcast"
      [] c = 45 -> "Fog"
      [] c = 48 -> "Depositing Rime Fog"
      [] c = 51 -> "Light Drizzle"
      [] c = 53 -> "Moderate Drizzle"
      [] c = 55 -> "Dense Drizzle"
      [] c = 61 -> "Slight Rain"
      [] c = 63 -> "Moderate Rain"
      [] c = 65 -> "Heavy Rain"
      [] c = 71 -> "Slight Snow"
      [] c = 73 -> "Moderate Snow"
      [] c = 75 -> "Heavy Snow"
      [] c = 77 -> "Snow Grains"
      [] c = 80 -> "Slight Rain Showers"
      [] c = 81 -> "Moderate Rain Showers"
      [] c = 82 -> "Violent Rain Showers"
      [] c = 85 -> "Slight Snow Showers"
      [] c = 86 -> "Heavy Snow Showers"
      [] c = 95 -> "Thunderstorm"
      [] c = 96 -> "Thunderstorm with Slight Hail"
      [] c = 99 -> "Thunderstorm with Heavy Hail"
      [] OTHER -> "Unknown"

\* C1: for every integer code, get_weather_condition returns without raising,
\* with the documented label for each of the 24 table codes and "Unknown" for
\* every other integer, negative and beyond the table included.
C1_ConditionOfEveryInteger ==
    pc = "returned" =>
        /\ err = NoExc
        /\ condition = DocumentedLabel(weather_code.n)

C1_Witness ==
    /\ pc = "returned"
    /\ weather_code.n = -1
    /\ condition = "Unknown"

\* The fetch of this run has been made / has raised / has returned.
FetchDone == response # NoTransport
FetchFailed == FetchDone /\ failed_stage = "fetch"
FetchReturned == FetchDone /\ failed_stage # "fetch"
IsSuccessStatus(st) == 200 <= st /\ st <= 299
IsErrorStatus(st) == 400 <= st /\ st <= 599

C3_FileUntouchedByFailedRun ==
    /\ (pc = "exited" /\ err # NoExc) => file = file_at_start
    /\ file # file_at_start => (format_calls = 1 /\ failed_stage # "format")

\* A response of the documented shape: an object whose current_weather is
\* absent or an object, whose weathercode is absent or an integer.
DocumentedShape(wd) ==
    /\ wd.k = "obj"
    /\ \/ wd.current_weather.k = "absent"
       \/ /\ wd.current_weather.k = "obj"
          /\ wd.current_weather.weathercode.k \in {"absent", "int"}

\* The member of current_weather, absent when current_weather is.
Member(wd, key) ==
    IF wd.current_weather.k = "absent" THEN JAbsent
    ELSE wd.current_weather[key]

SomeFieldAbsent(wd) ==
    \/ wd.current_weather.k = "absent"
    \/ \E key \in {"temperature", "windspeed", "weathercode"} :
           Member(wd, key).k = "absent"

\* C4: format_weather_as_markdown does not fail on a response of the
\* documented shape with any of current_weather, temperature, windspeed,
\* weathercode absent; its Value cells are "N/A" for an absent temperature,
\* "N/A" for an absent windspeed and the label of code 0 for an absent
\* weathercode; the fields present are shown as they are.
C4_AbsentFieldsGetDefaults ==
    (format_calls = 1 /\ DocumentedShape(weather_data)
                      /\ SomeFieldAbsent(weather_data)) =>
        LET t == Member(weather_data, "temperature")
            w == Member(weather_data, "windspeed")
            c == Member(weather_data, "weathercode")
        IN  /\ failed_stage # "format"
            /\ Len(markdown_table) = 5
            /\ markdown_table[3][2] = IF t.k = "absent" THEN "N/A" ELSE ToString(t.n)
            /\ markdown_table[4][2] = IF w.k = "absent" THEN "N/A" ELSE ToString(w.n)
            /\ weather_code = IF c.k = "absent" THEN JInt(0) ELSE c
            /\ markdown_table[5][2] = DocumentedLabel(weather_code.n)
            /\ c.k = "absent" => markdown_table[5][2] = "Clear Sky"

C4_Witness ==
    /\ format_calls = 1
    /\ weather_data = WeatherResponse(JAbsent)
    /\ markdown_table[3][2] = "N/A"
    /\ markdown_table[4][2] = "N/A"
    /\ markdown_table[5][2] = "Clear Sky"

\* The run has ended and nothing in it raised.
RunSucceeded == pc = "exited" /\ failed_stage = "none"

\* C5: after a successful run weather_report.md is the line "# Weather
\* Report", an empty line and then the table format_weather_as_markdown
\* returned for the fetched response, which is the table that was printed:
\* the header Metric | Value, the alignment line, and exactly the three rows
\* Temperature, Wind Speed, Condition in that order.
C5_ReportIsHeadingAndTable ==
    RunSucceeded =>
        /\ file.exists
        /\ Len(file.content) = 7
        /\ file.content[1] = <<"# Weather Report">>
        /\ file.content[2] = <<>>
        /\ SubSeq(file.content, 3, 7) = markdown_table
        /\ weather_data = response.body.data
        /\ markdown_table = format_weather_as_markdown(weather_data).val
        /\ \E i \in 1..Len(console) :
               /\ console[i].kind = "table"
               /\ console[i].table = SubSeq(file.content, 3, 7)
        /\ file.content[3] = <<"Metric", "Value">>
        /\ file.content[5][1] = "Temperature (Â°C)"
        /\ file.content[6][1] = "Wind Speed (km/h)"
        /\ file.content[7][1] = "Condition"
        /\ \A i \in 3..7 : Len(file.content[i]) = 2

C5_Witness ==
    /\ RunSucceeded
    /\ file.content[5][2] = "-5"
    /\ file.content[6][2] = "12"
    /\ file.content[7][2] = "Slight Snow"

\* C6: a successful run leaves the report of that run alone, whatever the
\* file held before; a second successful run on the same response leaves the
\* file the first one left.
C6_OverwriteNotAppend ==
    RunSucceeded =>
        /\ file.exists
        /\ file.content = << <<"# Weather Report">>, <<>> >> \o markdown_table
        /\ (prev.ran /\ prev.ok /\ prev.weather_data = weather_data)
               => file = file_at_start

C6_Witness ==
    /\ RunSucceeded
    /\ runs = 2
    /\ prev.ok
    /\ prev.weather_data = weather_data
    /\ file_at_start.exists
    /\ file = file_at_start

\* The kinds of the lines printed so far, in order.
ConsoleKinds == [i \in 1..Len(console) |-> console[i].kind]

\* The last line printed.
LastPrinted == console[Len(console)]

\* C7: every run ends, with exit code 0, whatever the transport did and
\* whatever the response held; an exception raised in any stage has been
\* printed by an except clause of main when the process ends.
C7_EveryRunExitsNormally ==
    /\ [](pc = "exited" =>
            /\ exit_code = 0
            /\ err # NoExc =>
                   /\ LastPrinted.kind \in {"error", "unexpected"}
                   /\ LastPrinted.text \in {"Error: " \o err.msg,
                                            "Unexpected error: " \o err.msg})
    /\ [](pc = "print_fetching" => <>(pc = "exited"))

C7_Witness ==
    /\ pc = "exited"
    /\ exit_code = 0
    /\ failed_stage = "format"
    /\ err.type = "TypeError"

\* What a successful run prints, in order.
SuccessKinds ==
    <<"status", "raw_label", "raw_json", "rule", "label", "rule", "table",
      "saved">>

FiftyEquals == "=================================================="

\* C8: a successful run prints, each once and in this order, the status
\* line, the raw response, the banner (a line of 50 "=", the label, a line of
\* 50 "="), the table and the confirmation naming weather_report.md; the
\* status line is printed before the GET is issued, and the confirmation only
\* once the file holds the whole report.
C8_ConsoleOrder ==
    /\ RunSucceeded =>
           /\ ConsoleKinds = SuccessKinds
           /\ console[1].text = "Fetching weather data..."
           /\ console[4].text = "\n" \o FiftyEquals
           /\ console[5].text = "FORMATTED WEATHER DATA (Markdown Table):"
           /\ console[6].text = FiftyEquals
           /\ console[7].table = markdown_table
           /\ console[8].text = "\nWeather report saved to 'weather_report.md'"
    /\ FetchDone => (Len(console) >= 1 /\ console[1].kind = "status")
    /\ (\E i \in 1..Len(console) : console[i].kind = "saved") =>
           /\ LastPrinted.kind = "saved"
           /\ file.content = << <<"# Weather Report">>, <<>> >> \o markdown_table

C8_Witness ==
    /\ RunSucceeded
    /\ ConsoleKinds = SuccessKinds

Prints(kind) == \E i \in 1..Len(console) : console[i].kind = kind

\* C9: a run issues at most one GET and calls format at most once, and a
\* failure ends the pipeline: after a failed fetch no raw data is printed,
\* format is not called and the file is not written; after a failed format
\* no table is printed, the file is not written and no confirmation is
\* printed; after a failed write no confirmation is printed.
C9_FailureAbortsTheRun ==
    /\ http_requests <= 1
    /\ format_calls <= 1
    /\ failed_stage # "none" => pc \in {"except", "return", "exited"}
    /\ failed_stage = "fetch" =>
           /\ http_requests = 1
           /\ ~Prints("raw_json")
           /\ format_calls = 0
           /\ ~Prints("table")
           /\ file = file_at_start
           /\ ~Prints("saved")
    /\ failed_stage = "format" =>
           /\ ~Prints("table")
           /\ file = file_at_start
           /\ ~Prints("saved")
    /\ failed_stage \in {"open", "write"} => ~Prints("saved")

C9_Witness ==
    /\ pc = "exited"
    /\ failed_stage = "format"
    /\ Prints("raw_json")
    /\ ~Prints("table")

\* The fetch failed in the transport or on the status of the response.
TransportFailure ==
    /\ failed_stage = "fetch"
    /\ \/ response.kind \in {"timeout", "connection"}
       \/ IsErrorStatus(response.status)

\* C10: a run ends with exactly one of three last messages: the confirmation
\* exactly when nothing failed, a line "Error: ..." exactly when the fetch
\* raised its RequestException (timeout, connection failure, error status),
\* a line "Unexpected error: ..." exactly when anything else was raised.
C10_OneTerminalMessage ==
    pc = "exited" =>
        /\ Len(console) >= 1
        /\ Cardinality({i \in 1..Len(console) :
               console[i].kind \in {"saved", "error", "unexpected"}}) = 1
        /\ LastPrinted.kind \in {"saved", "error", "unexpected"}
        /\ LastPrinted.kind = "saved" <=> failed_stage = "none"
        /\ LastPrinted.kind = "saved" =>
               file.content = << <<"# Weather Report">>, <<>> >> \o markdown_table
        /\ LastPrinted.kind = "error" <=> TransportFailure
        /\ LastPrinted.kind = "error" =>
               /\ err.type = "RequestException"
               /\ LastPrinted.text = "Error: " \o err.msg
        /\ LastPrinted.kind = "unexpected" <=>
               (failed_stage # "none" /\ ~TransportFailure)
        /\ LastPrinted.kind = "unexpected" =>
               /\ err.type # "RequestException"
               /\ LastPrinted.text = "Unexpected error: " \o err.msg

C10_Witness ==
    /\ pc = "exited"
    /\ LastPrinted.kind = "unexpected"
    /\ failed_stage = "fetch"
    /\ err.type = "JSONDecodeError"

====
